---- MODULE Spec2Model ----
(***************************************************************************)
(* Model of the outray-go tunnel client: the Connect retry loop with its   *)
(* backoff, connectOnce (dial, install, heartbeat, handshake, readLoop),   *)
(* Close, SendResponse, and the relay goroutines for TCP streams, UDP      *)
(* datagrams and proxied HTTP requests.  A goroutine is a position (and    *)
(* its locals); the two mutexes c.mu and c.tcpConnsMu are modelled by      *)
(* their owner; a write on the transport has a begin and an end.           *)
(***************************************************************************)
EXTENDS Integers, FiniteSets, Sequences, TLC

\* ---------------------------------------------------------------- bounds
MaxFails == 2         \* consecutive failed attempts Connect makes
MaxRetries == 7       \* the same, where the relay starts no relay goroutine
MaxSessions == 2      \* dials that succeed (transports established)
MaxTasks == 2         \* relay goroutines of one kind (stream, datagram, proxy)
MaxStarted == 1       \* relay goroutines started in all, where the traffic is mixed
MaxUserCloses == 1    \* calls of Close() from outside Connect

\* ------------------------------------------------------ program constants
InitialBackoff == 1   \* seconds
MaxBackoff == 30      \* seconds

\* The connection ids, in the order the relay first uses them.
IDOrder == <<"a", "b">>
ConnIDs == {IDOrder[i] : i \in DOMAIN IDOrder}

Sessions == 1..MaxSessions
Tasks == 1..MaxTasks

\* ---------------------------------------------------------- goroutine ids
Main == <<"main", 0>>
User == <<"user", 0>>
Free == <<"free", 0>>
HB(s) == <<"hb", s>>
ST(k) == <<"st", k>>
UD(k) == <<"udp", k>>
HT(k) == <<"http", k>>

Callers == {Main, User}

\* The configurations a client is built with (NewClient and its options).
Configs ==
    { [OnRequest |-> TRUE,  OnError |-> TRUE,  OnOpen |-> TRUE,  Protocol |-> "http", Port |-> 8080],
      [OnRequest |-> FALSE, OnError |-> TRUE,  OnOpen |-> TRUE,  Protocol |-> "http", Port |-> 8080],
      [OnRequest |-> FALSE, OnError |-> FALSE, OnOpen |-> FALSE, Protocol |-> "tcp",  Port |-> 8080] }

VARIABLES
    cfg,        \* c.config
    codec,      \* a value on its way through json.Marshal and json.Unmarshal
    ctxDone,    \* the context passed to Connect is cancelled
    pc,         \* position of Connect's goroutine and of the outside caller of Close
    backoff,    \* Connect's local backoff, in seconds
    err,        \* the error of the attempt: "nil", "dial", "handshake" or "read"
    readErr,    \* the error ReadJSON returned to readLoop ("none": none so far)
    ret,        \* what Connect returned ("none" until it returns)
    fails,      \* failed attempts since the last clean one
    userCloses, \* calls of Close() made from outside
    conn,       \* c.conn: 0 is nil, s the transport of session s
    closed,     \* c.closed
    mu,         \* owner of c.mu
    tcpConnsMu, \* owner of c.tcpConnsMu
    tcpConns,   \* c.tcpConns: connectionId -> local socket (0: no entry)
    tClosed,    \* per transport: number of conn.Close() calls
    sockClosed, \* per local socket: number of Close() calls
    hb,         \* heartbeat goroutine of each session
    st,         \* handleTCPConnection goroutines
    ud,         \* handleUDPData goroutines
    ht,         \* proxy goroutines of readLoop
    cur,        \* the tcp_data frame handleTCPData is handling
    rq,         \* the request frame readLoop is handling, and the ID of its response
    written,    \* the local sockets that tcp_data bytes were written to
    writes,     \* the writes in progress on the transport
    errCalls,   \* calls of c.config.OnError made so far: TRUE when their number is odd
    seen        \* what has happened so far: "panic" (a user callback seen and was
                \* recovered), "noop" (a call of Close() returned at the closed check)

vars == <<cfg, codec, ctxDone, pc, backoff, err, readErr, ret, fails, userCloses,
          conn, closed, mu, tcpConnsMu, tcpConns, tClosed, sockClosed,
          hb, st, ud, ht, cur, rq, written, writes, errCalls, seen>>

connVars == <<conn, closed, tClosed>>
lockVars == <<mu, tcpConnsMu>>
tableVars == <<tcpConns, sockClosed, written>>
taskVars == <<hb, st, ud, ht>>
loopVars == <<backoff, err, readErr, ret, fails>>
cbVars == <<errCalls, seen>>

NoFrame == [id |-> "", sock |-> 0]
NoTask == [pc |-> "none", id |-> "", sess |-> 0]

\* The identifier of a request or response frame: the JSON key it comes under
\* and its value.
NoRequest == [key |-> "", val |-> ""]
WireKeys == {"requestId", "id"}
RequestIDs == {"r1", "r2"}
RequestFrames == {[key |-> k, val |-> v] : k \in WireKeys, v \in RequestIDs}

NoRq == [req |-> NoRequest, id |-> ""]

\* The packet ids of udp_data frames.
PacketIDs == {"p1", "p2"}

\* A handleUDPData goroutine: its packet's id and what its exchange with the
\* local service came to ("none": not over yet, or the goroutine has returned).
NoDatagram == [pc |-> "none", id |-> "", sess |-> 0, out |-> "none"]
NoProxy == [pc |-> "none", id |-> "", sess |-> 0, req |-> NoRequest]

\* No value is being encoded.
NoCodec == [step |-> "none"]

\* The client after NewClient.
InitClient ==
    /\ cfg \in Configs
    /\ ctxDone = FALSE
    /\ pc = [t \in Callers |-> IF t = Main THEN "top" ELSE "idle"]
    /\ backoff = InitialBackoff
    /\ err = "nil"
    /\ readErr = "none"
    /\ ret = "none"
    /\ fails = 0
    /\ userCloses = 0
    /\ conn = 0
    /\ closed = FALSE
    /\ mu = Free
    /\ tcpConnsMu = Free
    /\ tcpConns = [i \in ConnIDs |-> 0]
    /\ tClosed = [s \in Sessions |-> 0]
    /\ sockClosed = [k \in Tasks |-> 0]
    /\ hb = [s \in Sessions |-> "none"]
    /\ st = [k \in Tasks |-> NoTask]
    /\ ud = [k \in Tasks |-> NoDatagram]
    /\ ht = [k \in Tasks |-> NoProxy]
    /\ cur = NoFrame
    /\ rq = NoRq
    /\ written = {}
    /\ writes = {}
    /\ errCalls = FALSE
    /\ seen = {}

Init == InitClient /\ codec = NoCodec

\* ------------------------------------------------------------- helpers

\* json.Unmarshal into IncomingRequest: ID has the tag json:"id".
DecodeRequestID(frame) == IF frame.key = "id" THEN frame.val ELSE ""

\* json.Marshal of IncomingResponse: ID goes out under the tag json:"id".
EncodeResponseID(id) == [key |-> "id", val |-> id]

\* resp.ID = req.ID, whatever the responder had put there.
ResponseID(given, reqID) == reqID

\* conn.WriteJSON / conn.WriteControl called by goroutine t: the frame's kind,
\* the transport it goes to (c.conn), the session whose frame or goroutine it
\* comes from, c.closed at the call, and for a response the identifier it
\* carries and the request frame it answers.
BeginFrame(t, kind, origin, id, req) ==
    writes' = writes \cup {[by |-> t, kind |-> kind, conn |-> conn,
                            from |-> origin, closed |-> closed,
                            id |-> id, re |-> req]}

BeginWrite(t, kind, origin) == BeginFrame(t, kind, origin, NoRequest, NoRequest)

\* c.conn.WriteJSON(resp) in SendResponse.
BeginResponse(t, origin, id, req) ==
    BeginFrame(t, "response", origin, EncodeResponseID(id), req)

\* The call returns.
EndWrite(t) == writes' = {w \in writes : w.by # t}

\* safeCallback: the callback returns or panics; a panic is recovered and logged.
SafeCallback(registered) ==
    IF registered
    THEN \E p \in BOOLEAN : seen' = IF p THEN seen \cup {"panic"} ELSE seen
    ELSE UNCHANGED seen

\* An error that is reported to nobody.
SafeOnErrorSilent == UNCHANGED cbVars

\* if c.config.OnError != nil { c.safeOnError(err) }
SafeOnError ==
    /\ SafeCallback(cfg.OnError)
    /\ errCalls' = IF cfg.OnError THEN ~errCalls ELSE errCalls

\* The doubling without the cap.
NextBackoffNoCap(b) == b * 2

\* backoff *= 2; if backoff > maxBackoff { backoff = maxBackoff }
NextBackoff(b) == IF b * 2 > MaxBackoff THEN MaxBackoff ELSE b * 2

\* ------------------------------------------------------------- context
\* The caller cancels the context given to Connect.
CtxCancel ==
    /\ ~ctxDone
    /\ ctxDone' = TRUE
    /\ UNCHANGED <<cfg, codec, pc, loopVars, userCloses, connVars, lockVars, tableVars,
                   taskVars, cur, rq, writes, cbVars>>

\* ------------------------------------------------------------- Connect
\* for { select { case <-ctx.Done(): return ctx.Err(); default: } ... connectOnce(ctx)
ConnectTop(maxFails) ==
    /\ pc[Main] = "top"
    /\ IF ctxDone
       THEN /\ pc' = [pc EXCEPT ![Main] = "returned"]
            /\ ret' = "ctxErr"
       ELSE /\ fails < maxFails
            /\ pc' = [pc EXCEPT ![Main] = "dial"]
            /\ UNCHANGED ret
    /\ UNCHANGED <<cfg, codec, ctxDone, backoff, err, readErr, fails, userCloses, connVars,
                   lockVars, tableVars, taskVars, cur, rq, writes, cbVars>>

\* dialer.DialContext fails: connectOnce returns the error (nothing is deferred yet).
DialFail ==
    /\ pc[Main] = "dial"
    /\ err' = "dial"
    /\ pc' = [pc EXCEPT ![Main] = "ret1"]
    /\ UNCHANGED <<cfg, codec, ctxDone, backoff, readErr, ret, fails, userCloses,
                   connVars, lockVars, tableVars, taskVars, cur, rq, writes, cbVars>>

\* dialer.DialContext succeeds (it fails on a context that is already cancelled).
DialOk ==
    /\ pc[Main] = "dial"
    /\ ~ctxDone
    /\ conn < MaxSessions
    /\ pc' = [pc EXCEPT ![Main] = "install"]
    /\ UNCHANGED <<cfg, codec, ctxDone, loopVars, userCloses, connVars, lockVars, tableVars,
                   taskVars, cur, rq, writes, cbVars>>

\* c.mu.Lock(); c.conn = conn; c.closed = false; c.mu.Unlock(); defer c.Close();
\* go func() { heartbeat }()
Install ==
    /\ pc[Main] = "install"
    /\ mu = Free
    /\ conn' = conn + 1
    /\ closed' = FALSE
    /\ hb' = [hb EXCEPT ![conn + 1] = "tick"]
    /\ pc' = [pc EXCEPT ![Main] = "hs"]
    /\ UNCHANGED <<cfg, codec, ctxDone, loopVars, userCloses, tClosed, lockVars, tableVars,
                   st, ud, ht, cur, rq, writes, cbVars>>

\* c.conn.WriteJSON(handshake) starts: c.mu is not taken, c.closed is not read.
HandshakeBegin ==
    /\ pc[Main] = "hs"
    /\ BeginWrite(Main, "open_tunnel", conn)
    /\ pc' = [pc EXCEPT ![Main] = "hsw"]
    /\ UNCHANGED <<cfg, codec, ctxDone, loopVars, userCloses, connVars, lockVars, tableVars,
                   taskVars, cur, rq, cbVars>>

\* c.conn.WriteJSON(handshake) returns: nil, or an error (always an error on a
\* transport that has been closed), and then connectOnce returns through the
\* deferred Close.
HandshakeEnd ==
    /\ pc[Main] = "hsw"
    /\ EndWrite(Main)
    /\ \E ok \in BOOLEAN :
         /\ ok => tClosed[conn] = 0
         /\ IF ok
            THEN /\ pc' = [pc EXCEPT ![Main] = "read"]
                 /\ UNCHANGED err
            ELSE /\ pc' = [pc EXCEPT ![Main] = "close1"]
                 /\ err' = "handshake"
    /\ UNCHANGED <<cfg, codec, ctxDone, backoff, readErr, ret, fails, userCloses,
                   connVars, lockVars, tableVars, taskVars, cur, rq, cbVars>>

\* A reset after every attempt, failed or not.
BackoffAfterAnyAttempt(e, b) == InitialBackoff

\* What the backoff becomes when connectOnce has returned e.
BackoffAfter(e, b) == IF e = "nil" THEN InitialBackoff ELSE b

\* Giving up on the first failed attempt.
AfterAttemptGivingUp(e) == IF e = "nil" THEN "top" ELSE "returned"

\* Where Connect goes when connectOnce has returned e: the top of the loop, or
\* the backoff wait.
AfterAttempt(e) == IF e = "nil" THEN "top" ELSE "wait"

\* if err := c.connectOnce(ctx); err != nil { logf; safeOnError(err); select ... }
\* else { backoff = time.Second }
ConnectResult ==
    /\ pc[Main] = "ret1"
    /\ backoff' = BackoffAfter(err, backoff)
    /\ fails' = IF err = "nil" THEN 0 ELSE fails + 1
    /\ IF err = "nil" THEN UNCHANGED cbVars ELSE SafeOnError
    /\ pc' = [pc EXCEPT ![Main] = AfterAttempt(err)]
    /\ readErr' = "none"
    /\ UNCHANGED <<cfg, codec, ctxDone, err, ret, userCloses, connVars, lockVars,
                   tableVars, taskVars, cur, rq, writes>>

\* A wait that sleeps without watching the context.
WaitIgnoresCtx == FALSE

\* The select of the backoff wait takes case <-ctx.Done() when it is ready.
WaitSeesCtx == ctxDone

\* select { case <-ctx.Done(): return ctx.Err() ... }
ConnectWaitCtx ==
    /\ pc[Main] = "wait"
    /\ WaitSeesCtx
    /\ pc' = [pc EXCEPT ![Main] = "returned"]
    /\ ret' = "ctxErr"
    /\ UNCHANGED <<cfg, codec, ctxDone, backoff, err, readErr, fails, userCloses, connVars,
                   lockVars, tableVars, taskVars, cur, rq, writes, cbVars>>

\* select { ... case <-time.After(backoff): backoff *= 2; cap }: the timer fires
\* and the select takes it (also when the context is done at the same time).
ConnectWaitTimer ==
    /\ pc[Main] = "wait"
    /\ pc' = [pc EXCEPT ![Main] = "top"]
    /\ backoff' = NextBackoff(backoff)
    /\ err' = "nil"
    /\ UNCHANGED <<cfg, codec, ctxDone, readErr, ret, fails, userCloses, connVars,
                   lockVars, tableVars, taskVars, cur, rq, writes, cbVars>>

\* --------------------------------------------------------------- Close
\* Where a caller of Close continues when Close has returned.
AfterClose(t) == IF t = Main THEN "ret1" ELSE "idle"

\* Close without the closed check.
CloseNeverReturnsEarly == FALSE

\* if c.closed { return nil }
CloseReturnsEarly == closed

\* c.mu.Lock(); defer c.mu.Unlock(); if c.closed { return nil }; c.closed = true
CloseEnter(t) ==
    /\ pc[t] = "close1"
    /\ mu = Free
    /\ IF CloseReturnsEarly
       THEN /\ pc' = [pc EXCEPT ![t] = AfterClose(t)]
            /\ seen' = seen \cup {"noop"}
            /\ UNCHANGED <<mu, closed, errCalls>>
       ELSE /\ pc' = [pc EXCEPT ![t] = "close2"]
            /\ mu' = t
            /\ closed' = TRUE
            /\ UNCHANGED cbVars
    /\ UNCHANGED <<cfg, codec, ctxDone, loopVars, userCloses, conn, tClosed, tcpConnsMu,
                   tableVars, taskVars, cur, rq, writes>>

\* The local sockets the Stream Table holds.
TableSockets == {tcpConns[i] : i \in ConnIDs} \ {0}

\* A Close() that lets go of c.mu before it takes c.tcpConnsMu.
CloseTableOutsideMu(t) ==
    /\ pc[t] = "close2"
    /\ tcpConnsMu = Free
    /\ tcpConnsMu' = t
    /\ mu' = Free
    /\ sockClosed' = [k \in Tasks |->
                        IF k \in TableSockets THEN sockClosed[k] + 1 ELSE sockClosed[k]]
    /\ tcpConns' = [i \in ConnIDs |-> 0]
    /\ pc' = [pc EXCEPT ![t] = "close3"]
    /\ UNCHANGED <<cfg, codec, ctxDone, loopVars, userCloses, connVars, taskVars, cur, rq,
                   written, writes, cbVars>>

\* c.tcpConnsMu.Lock(); for _, conn := range c.tcpConns { conn.Close() };
\* c.tcpConns = make(map[string]net.Conn)
CloseTable(t) ==
    /\ pc[t] = "close2"
    /\ tcpConnsMu = Free
    /\ tcpConnsMu' = t
    /\ sockClosed' = [k \in Tasks |->
                        IF k \in TableSockets THEN sockClosed[k] + 1 ELSE sockClosed[k]]
    /\ tcpConns' = [i \in ConnIDs |-> 0]
    /\ pc' = [pc EXCEPT ![t] = "close3"]
    /\ UNCHANGED <<cfg, codec, ctxDone, loopVars, userCloses, connVars, mu, taskVars, cur, rq,
                   written, writes, cbVars>>

\* c.tcpConnsMu.Unlock(); if c.conn != nil { return c.conn.Close() }; return nil;
\* (deferred) c.mu.Unlock()
CloseConn(t) ==
    /\ pc[t] = "close3"
    /\ mu = t
    /\ tcpConnsMu = t
    /\ tcpConnsMu' = Free
    /\ tClosed' = IF conn # 0 THEN [tClosed EXCEPT ![conn] = @ + 1] ELSE tClosed
    /\ mu' = Free
    /\ pc' = [pc EXCEPT ![t] = AfterClose(t)]
    /\ UNCHANGED <<cfg, codec, ctxDone, loopVars, userCloses, conn, closed,
                   tableVars, taskVars, cur, rq, writes, cbVars>>

\* The program that owns the client calls Close().
UserClose ==
    /\ pc[User] = "idle"
    /\ userCloses < MaxUserCloses
    /\ userCloses' = userCloses + 1
    /\ pc' = [pc EXCEPT ![User] = "close1"]
    /\ UNCHANGED <<cfg, codec, ctxDone, loopVars, connVars, lockVars, tableVars, taskVars,
                   cur, rq, writes, cbVars>>

\* ------------------------------------------------------------ readLoop
\* c.conn.ReadJSON(&raw) returns a frame: only on a transport that is not closed.
CanRead == pc[Main] = "read" /\ tClosed[conn] = 0

\* The first goroutine slot of f that is not in use (0: none left).
Unused(f) == IF \E k \in Tasks : f[k].pc = "none"
             THEN CHOOSE k \in Tasks : f[k].pc = "none" /\ \A j \in 1..(k - 1) : f[j].pc # "none"
             ELSE 0

\* Relay goroutines started so far.
Started == Cardinality({k \in Tasks : st[k].pc # "none"})
           + Cardinality({k \in Tasks : ud[k].pc # "none"})
           + Cardinality({k \in Tasks : ht[k].pc # "none"})

\* The connection ids the relay has used, and the one it uses next.
UsedIDs == {st[k].id : k \in {j \in Tasks : st[j].pc # "none"}}
FreshIDs == {IDOrder[i] : i \in {j \in DOMAIN IDOrder :
                                     /\ IDOrder[j] \notin UsedIDs
                                     /\ \A h \in 1..(j - 1) : IDOrder[h] \in UsedIDs}}

\* case MsgTypeTunnelOpened: if OnOpen != nil { safeCallback(OnOpen(url)) }
RecvTunnelOpened ==
    /\ CanRead
    /\ SafeCallback(cfg.OnOpen)
    /\ UNCHANGED <<errCalls, cfg, codec, ctxDone, pc, loopVars, userCloses, connVars, lockVars, tableVars,
                   taskVars, cur, rq, writes>>

\* case MsgTypeError: if OnError != nil { safeOnError(errors.New(msg)) }
RecvError ==
    /\ CanRead
    /\ SafeOnError
    /\ UNCHANGED <<cfg, codec, ctxDone, pc, loopVars, userCloses, connVars, lockVars, tableVars,
                   taskVars, cur, rq, writes>>

\* A frame without a string "type", or of a type the switch does not name.
RecvSkipped ==
    /\ CanRead
    /\ UNCHANGED vars

\* case MsgTypeTCPConnection: go c.handleTCPConnection(connID)
RecvTCPConnection(id, budget) ==
    /\ CanRead
    /\ Unused(st) # 0
    /\ Started < budget
    /\ st' = [st EXCEPT ![Unused(st)] = [pc |-> "dial", id |-> id, sess |-> conn]]
    /\ UNCHANGED <<cfg, codec, ctxDone, pc, loopVars, userCloses, connVars, lockVars, tableVars,
                   hb, ud, ht, cur, rq, writes, cbVars>>

\* case MsgTypeTCPData: c.handleTCPData(connID, data):
\* c.tcpConnsMu.Lock(); localConn, ok := c.tcpConns[connID]; c.tcpConnsMu.Unlock()
RecvTCPData(id) ==
    /\ CanRead
    /\ tcpConnsMu = Free
    /\ cur' = [id |-> id, sock |-> tcpConns[id]]
    /\ pc' = [pc EXCEPT ![Main] = "td"]
    /\ UNCHANGED <<rq, cfg, codec, ctxDone, loopVars, userCloses, connVars, lockVars, tableVars,
                   taskVars, writes, cbVars>>

\* A lookup whose result is not tested.
LookupNeverMisses(sock) == FALSE

\* if !ok { return }
LookupMissed(sock) == sock = 0

\* if !ok { return }; data, err := base64.StdEncoding.DecodeString(dataB64);
\* if err != nil { return }; localConn.Write(data)
TCPDataWrite ==
    /\ pc[Main] = "td"
    /\ \E decodes \in BOOLEAN :
         written' = IF LookupMissed(cur.sock) \/ ~decodes
                    THEN written
                    ELSE written \cup {cur.sock}
    /\ cur' = NoFrame
    /\ pc' = [pc EXCEPT ![Main] = "read"]
    /\ UNCHANGED <<rq, cfg, codec, ctxDone, loopVars, userCloses, connVars, lockVars, tcpConns,
                   sockClosed, taskVars, writes, cbVars>>

\* case MsgTypeUDPData: if json.Unmarshal(bytes, &packet) == nil { go c.handleUDPData(packet) }
RecvUDPData(budget) ==
    /\ CanRead
    /\ Unused(ud) # 0
    /\ Started < budget
    /\ \E decodes \in BOOLEAN, p \in PacketIDs :
         ud' = IF decodes
               THEN [ud EXCEPT ![Unused(ud)] = [pc |-> "io", id |-> p, sess |-> conn,
                                                out |-> "none"]]
               ELSE ud
    /\ UNCHANGED <<cfg, codec, ctxDone, pc, loopVars, userCloses, connVars, lockVars, tableVars,
                   hb, st, ht, cur, rq, writes, cbVars>>

\* Who answers a request: the registered handler, else the local HTTP proxy.
Responder == IF cfg.OnRequest THEN "handler"
             ELSE IF cfg.Port > 0 /\ cfg.Protocol = "http" THEN "proxy"
             ELSE "none"

\* case MsgTypeRequest: decode; OnRequest inside safeCallback on this goroutine,
\* else go func() { proxyHTTP; SendResponse }()
RecvRequest(budget) ==
    /\ CanRead
    /\ \E decodes \in BOOLEAN, f \in RequestFrames :
         IF ~decodes \/ Responder = "none"
         THEN UNCHANGED <<pc, ht, rq>>
         ELSE IF Responder = "handler"
         THEN /\ pc' = [pc EXCEPT ![Main] = "handler"]
              /\ rq' = [req |-> f, id |-> DecodeRequestID(f)]
              /\ UNCHANGED ht
         ELSE /\ Unused(ht) # 0
              /\ Started < budget
              /\ ht' = [ht EXCEPT ![Unused(ht)] =
                           [pc |-> "proxy", id |-> DecodeRequestID(f), sess |-> conn, req |-> f]]
              /\ UNCHANGED <<pc, rq>>
    /\ UNCHANGED <<cfg, codec, ctxDone, loopVars, userCloses, connVars, lockVars, tableVars,
                   hb, st, ud, cur, writes, cbVars>>

\* A panic that nothing recovers unwinds readLoop and connectOnce.
AfterPanicUnwinds == "close1"

\* Where readLoop is after a panic that safeCallback has recovered: at the end
\* of the switch, on its way to the next ReadJSON.
AfterPanic == "read"

\* The identifiers a request handler may put in the response it returns.
HandlerIDs == RequestIDs \cup {""}

\* resp := c.config.OnRequest(req): it returns, or panics and safeCallback
\* recovers; resp.ID = req.ID
HandlerRuns ==
    /\ pc[Main] = "handler"
    /\ \E p \in BOOLEAN, given \in HandlerIDs :
         /\ seen' = IF p THEN seen \cup {"panic"} ELSE seen
         /\ pc' = [pc EXCEPT ![Main] = IF p THEN AfterPanic ELSE "sr1"]
         /\ rq' = IF p THEN NoRq ELSE [rq EXCEPT !.id = ResponseID(given, rq.id)]
    /\ UNCHANGED <<errCalls, cfg, codec, ctxDone, loopVars, userCloses, connVars, lockVars, tableVars,
                   taskVars, cur, writes>>

\* SendResponse: if c.closed { return errors.New("client is closed") }
SendResponseRefuses == closed

\* SendResponse on the dispatch goroutine: c.mu.Lock(); closed check;
\* c.conn.WriteJSON(resp) starts.  An error goes to safeOnError.
HandlerSend ==
    /\ pc[Main] = "sr1"
    /\ mu = Free
    /\ IF SendResponseRefuses
       THEN /\ SafeOnError
            /\ pc' = [pc EXCEPT ![Main] = "read"]
            /\ UNCHANGED <<mu, writes>>
       ELSE /\ mu' = Main
            /\ BeginResponse(Main, conn, rq.id, rq.req)
            /\ pc' = [pc EXCEPT ![Main] = "sr2"]
            /\ UNCHANGED cbVars
    /\ rq' = NoRq
    /\ UNCHANGED <<cfg, codec, ctxDone, loopVars, userCloses, connVars, tcpConnsMu, tableVars,
                   taskVars, cur>>

\* c.conn.WriteJSON(resp) returns; c.mu.Unlock(); a write error goes to safeOnError.
HandlerSent ==
    /\ pc[Main] = "sr2"
    /\ mu = Main
    /\ mu' = Free
    /\ EndWrite(Main)
    /\ \E ok \in BOOLEAN : IF ok THEN UNCHANGED cbVars ELSE SafeOnError
    /\ pc' = [pc EXCEPT ![Main] = "read"]
    /\ UNCHANGED <<cfg, codec, ctxDone, loopVars, userCloses, connVars, tcpConnsMu, tableVars,
                   taskVars, cur, rq>>

\* A clean close taken for any close of the peer.
LoopResultAnyClose(e) == IF e \in {"closeNormal", "closeOther"} THEN "nil" ELSE "read"

\* if websocket.IsCloseError(err, websocket.CloseNormalClosure) { return nil }; return err
LoopResult(e) == IF e = "closeNormal" THEN "nil" ELSE "read"

\* ReadJSON fails with the normal-closure close error: readLoop returns nil.
ReadCleanClose ==
    /\ CanRead
    /\ readErr' = "closeNormal"
    /\ err' = LoopResult("closeNormal")
    /\ pc' = [pc EXCEPT ![Main] = "close1"]
    /\ UNCHANGED <<cfg, codec, ctxDone, backoff, ret, fails, userCloses,
                   connVars, lockVars, tableVars, taskVars, cur, rq, writes, cbVars>>

\* ReadJSON fails with any other error (a close of the peer with another code,
\* the network, or the transport was closed under it): readLoop returns the error.
ReadFails ==
    /\ pc[Main] = "read"
    /\ \E e \in {"closeOther", "network"} :
         /\ readErr' = e
         /\ err' = LoopResult(e)
    /\ pc' = [pc EXCEPT ![Main] = "close1"]
    /\ UNCHANGED <<cfg, codec, ctxDone, backoff, ret, fails, userCloses,
                   connVars, lockVars, tableVars, taskVars, cur, rq, writes, cbVars>>

\* The relay sends a message that is not a JSON object: ReadJSON returns the
\* decoder's error, and readLoop returns it like any other.
RecvBadJSON ==
    /\ CanRead
    /\ readErr' = "decode"
    /\ err' = LoopResult("decode")
    /\ pc' = [pc EXCEPT ![Main] = "close1"]
    /\ UNCHANGED <<cfg, codec, ctxDone, backoff, ret, fails, userCloses,
                   connVars, lockVars, tableVars, taskVars, cur, rq, writes, cbVars>>

\* ----------------------------------------------------------- heartbeat
\* case <-ctx.Done(): return
HeartbeatCtxDone(s) ==
    /\ hb[s] = "tick"
    /\ ctxDone
    /\ hb' = [hb EXCEPT ![s] = "done"]
    /\ UNCHANGED <<cfg, codec, ctxDone, pc, loopVars, userCloses, connVars, lockVars, tableVars,
                   st, ud, ht, cur, rq, writes, cbVars>>

\* case <-ticker.C: c.mu.Lock(); if c.closed { c.mu.Unlock(); return };
\* c.conn.WriteControl(websocket.PingMessage, ...) starts.
HeartbeatTick(s) ==
    /\ hb[s] = "tick"
    /\ mu = Free
    /\ IF closed
       THEN /\ hb' = [hb EXCEPT ![s] = "done"]
            /\ UNCHANGED <<mu, writes>>
       ELSE /\ hb' = [hb EXCEPT ![s] = "wr"]
            /\ mu' = HB(s)
            /\ BeginWrite(HB(s), "ping", s)
    /\ UNCHANGED <<cfg, codec, ctxDone, pc, loopVars, userCloses, connVars, tcpConnsMu, tableVars,
                   st, ud, ht, cur, rq, cbVars>>

\* WriteControl returns; c.mu.Unlock(); on an error the goroutine returns.
HeartbeatWritten(s) ==
    /\ hb[s] = "wr"
    /\ mu = HB(s)
    /\ mu' = Free
    /\ EndWrite(HB(s))
    /\ \E ok \in BOOLEAN : hb' = [hb EXCEPT ![s] = IF ok THEN "tick" ELSE "done"]
    /\ UNCHANGED <<cfg, codec, ctxDone, pc, loopVars, userCloses, connVars, tcpConnsMu, tableVars,
                   st, ud, ht, cur, rq, cbVars>>

\* ------------------------------------------------- handleTCPConnection
\* net.Dial("tcp", target) fails: safeOnError if registered; return.
StreamDialFail(k) ==
    /\ st[k].pc = "dial"
    /\ SafeOnError
    /\ st' = [st EXCEPT ![k].pc = "failed"]
    /\ UNCHANGED <<cfg, codec, ctxDone, pc, loopVars, userCloses, connVars, lockVars, tableVars,
                   hb, ud, ht, cur, rq, writes>>

\* net.Dial succeeds: local socket k is open.
StreamDialOk(k) ==
    /\ st[k].pc = "dial"
    /\ st' = [st EXCEPT ![k].pc = "reg"]
    /\ UNCHANGED <<cfg, codec, ctxDone, pc, loopVars, userCloses, connVars, lockVars, tableVars,
                   hb, ud, ht, cur, rq, writes, cbVars>>

\* c.tcpConnsMu.Lock(); c.tcpConns[connID] = localConn; c.tcpConnsMu.Unlock();
\* go func() { ... read loop ... }()
StreamRegister(k) ==
    /\ st[k].pc = "reg"
    /\ tcpConnsMu = Free
    /\ tcpConns' = [tcpConns EXCEPT ![st[k].id] = k]
    /\ st' = [st EXCEPT ![k].pc = "rd"]
    /\ UNCHANGED <<cfg, codec, ctxDone, pc, loopVars, userCloses, connVars, lockVars, sockClosed,
                   written, hb, ud, ht, cur, rq, writes, cbVars>>

\* n, err := localConn.Read(buf) returns a chunk (only on a socket not yet closed).
StreamRead(k) ==
    /\ st[k].pc = "rd"
    /\ sockClosed[k] = 0
    /\ st' = [st EXCEPT ![k].pc = "send"]
    /\ UNCHANGED <<cfg, codec, ctxDone, pc, loopVars, userCloses, connVars, lockVars, tableVars,
                   hb, ud, ht, cur, rq, writes, cbVars>>

\* localConn.Read fails (EOF, an error, or the socket was closed by Close):
\* return, and the deferred cleanup runs.
StreamReadFails(k) ==
    /\ st[k].pc = "rd"
    /\ st' = [st EXCEPT ![k].pc = "cl"]
    /\ UNCHANGED <<cfg, codec, ctxDone, pc, loopVars, userCloses, connVars, lockVars, tableVars,
                   hb, ud, ht, cur, rq, writes, cbVars>>

\* c.mu.Lock(); if !c.closed { c.conn.WriteJSON(msg) starts } (else c.mu.Unlock())
StreamSend(k) ==
    /\ st[k].pc = "send"
    /\ mu = Free
    /\ IF closed
       THEN /\ st' = [st EXCEPT ![k].pc = "rd"]
            /\ UNCHANGED <<mu, writes>>
       ELSE /\ st' = [st EXCEPT ![k].pc = "wr"]
            /\ mu' = ST(k)
            /\ BeginWrite(ST(k), "tcp_data", st[k].sess)
    /\ UNCHANGED <<cfg, codec, ctxDone, pc, loopVars, userCloses, connVars, tcpConnsMu, tableVars,
                   hb, ud, ht, cur, rq, cbVars>>

\* WriteJSON returns (its error is dropped); c.mu.Unlock(); back to Read.
StreamSent(k) ==
    /\ st[k].pc = "wr"
    /\ mu = ST(k)
    /\ mu' = Free
    /\ EndWrite(ST(k))
    /\ st' = [st EXCEPT ![k].pc = "rd"]
    /\ UNCHANGED <<cfg, codec, ctxDone, pc, loopVars, userCloses, connVars, tcpConnsMu, tableVars,
                   hb, ud, ht, cur, rq, cbVars>>

\* deferred: localConn.Close()
StreamCloseSocket(k) ==
    /\ st[k].pc = "cl"
    /\ sockClosed' = [sockClosed EXCEPT ![k] = @ + 1]
    /\ st' = [st EXCEPT ![k].pc = "del"]
    /\ UNCHANGED <<cfg, codec, ctxDone, pc, loopVars, userCloses, connVars, lockVars, tcpConns,
                   written, hb, ud, ht, cur, rq, writes, cbVars>>

\* A cleanup that closes the socket and leaves the entry where it is.
StreamDeleteNothing(k) ==
    /\ st[k].pc = "del"
    /\ tcpConnsMu = Free
    /\ st' = [st EXCEPT ![k].pc = "done"]
    /\ UNCHANGED <<cfg, codec, ctxDone, pc, loopVars, userCloses, connVars, lockVars,
                   tableVars, hb, ud, ht, cur, rq, writes, cbVars>>

\* deferred: c.tcpConnsMu.Lock(); delete(c.tcpConns, connID); c.tcpConnsMu.Unlock()
StreamDelete(k) ==
    /\ st[k].pc = "del"
    /\ tcpConnsMu = Free
    /\ tcpConns' = [tcpConns EXCEPT ![st[k].id] = 0]
    /\ st' = [st EXCEPT ![k].pc = "done"]
    /\ UNCHANGED <<cfg, codec, ctxDone, pc, loopVars, userCloses, connVars, lockVars, sockClosed,
                   written, hb, ud, ht, cur, rq, writes, cbVars>>

\* ------------------------------------------------------- handleUDPData
UDPOutcomes == {"dialfail", "baddata", "writefail", "timeout", "reply"}

\* A relay that answers whatever the local exchange came to.
UDPAnswersAlways(o) == TRUE

\* handleUDPData gets as far as building respMsg: no step before it returned.
UDPAnswers(o) == o = "reply"

\* UDPResponse{Type: MsgTypeUDPResponse, PacketID: packet.PacketID, ...}
UDPResponseID(p) == [key |-> "packetId", val |-> p]

\* handleUDPData has returned: its packet and its reply are gone with it.
Returned(d) == [pc |-> "done", id |-> "", sess |-> d.sess, out |-> "none"]

\* Dial, decode, write with deadline, read one reply: every failure returns
\* (a dial failure through safeOnError); a reply goes on to the send.
UDPLocalIO(k) ==
    /\ ud[k].pc = "io"
    /\ \E o \in UDPOutcomes :
         /\ ud' = [ud EXCEPT ![k] = IF UDPAnswers(o)
                                    THEN [ud[k] EXCEPT !.pc = "send", !.out = o]
                                    ELSE Returned(ud[k])]
         /\ IF o = "dialfail" THEN SafeOnError ELSE UNCHANGED cbVars
    /\ UNCHANGED <<cfg, codec, ctxDone, pc, loopVars, userCloses, connVars, lockVars, tableVars,
                   hb, st, ht, cur, rq, writes>>

\* c.mu.Lock(); if !c.closed { c.conn.WriteJSON(respMsg) starts } (else unlock, return)
UDPSend(k) ==
    /\ ud[k].pc = "send"
    /\ mu = Free
    /\ IF closed
       THEN /\ ud' = [ud EXCEPT ![k] = Returned(ud[k])]
            /\ UNCHANGED <<mu, writes>>
       ELSE /\ ud' = [ud EXCEPT ![k].pc = "wr"]
            /\ mu' = UD(k)
            /\ BeginFrame(UD(k), "udp_response", ud[k].sess,
                          UDPResponseID(ud[k].id), NoRequest)
    /\ UNCHANGED <<cfg, codec, ctxDone, pc, loopVars, userCloses, connVars, tcpConnsMu, tableVars,
                   hb, st, ht, cur, rq, cbVars>>

\* WriteJSON returns; c.mu.Unlock(); deferred conn.Close() of the datagram socket.
UDPSent(k) ==
    /\ ud[k].pc = "wr"
    /\ mu = UD(k)
    /\ mu' = Free
    /\ EndWrite(UD(k))
    /\ ud' = [ud EXCEPT ![k] = Returned(ud[k])]
    /\ UNCHANGED <<cfg, codec, ctxDone, pc, loopVars, userCloses, connVars, tcpConnsMu, tableVars,
                   hb, st, ht, cur, rq, cbVars>>

\* ------------------------------------------------ proxy goroutine
\* The response records the proxy may return: proxyHTTP sets no ID.
ProxyIDs == {""}

\* resp := c.proxyHTTP(req); resp.ID = req.ID
ProxyRoundTrip(k) ==
    /\ ht[k].pc = "proxy"
    /\ \E given \in ProxyIDs :
         ht' = [ht EXCEPT ![k].pc = "send", ![k].id = ResponseID(given, ht[k].id)]
    /\ UNCHANGED <<cfg, codec, ctxDone, pc, loopVars, userCloses, connVars, lockVars, tableVars,
                   hb, st, ud, cur, rq, writes, cbVars>>

\* The goroutine's record once its request is out of its hands.
Sent(h, at) == [pc |-> at, id |-> "", sess |-> h.sess, req |-> NoRequest]

\* c.SendResponse(resp): c.mu.Lock(); closed check; WriteJSON starts.
ProxySend(k) ==
    /\ ht[k].pc = "send"
    /\ mu = Free
    /\ IF SendResponseRefuses
       THEN /\ SafeOnError
            /\ ht' = [ht EXCEPT ![k] = Sent(ht[k], "done")]
            /\ UNCHANGED <<mu, writes>>
       ELSE /\ mu' = HT(k)
            /\ BeginResponse(HT(k), ht[k].sess, ht[k].id, ht[k].req)
            /\ ht' = [ht EXCEPT ![k] = Sent(ht[k], "wr")]
            /\ UNCHANGED cbVars
    /\ UNCHANGED <<cfg, codec, ctxDone, pc, loopVars, userCloses, connVars, tcpConnsMu, tableVars,
                   hb, st, ud, cur, rq>>

\* WriteJSON returns; c.mu.Unlock(); a write error goes to safeOnError.
ProxySent(k) ==
    /\ ht[k].pc = "wr"
    /\ mu = HT(k)
    /\ mu' = Free
    /\ EndWrite(HT(k))
    /\ \E ok \in BOOLEAN : IF ok THEN UNCHANGED cbVars ELSE SafeOnError
    /\ ht' = [ht EXCEPT ![k].pc = "done"]
    /\ UNCHANGED <<cfg, codec, ctxDone, pc, loopVars, userCloses, connVars, tcpConnsMu, tableVars,
                   hb, st, ud, cur, rq>>

\* ------------------------------------------------- the wire encoding
\* What a Go string is made of: an ASCII character, a byte that is not valid
\* UTF-8 by itself, and the replacement rune U+FFFD.
Chars == {"a", "xE9", "uFFFD"}
MaxStringLen == 1
GoStrings == UNION {[1..n -> Chars] : n \in 0..MaxStringLen}

\* The methods, paths and frame types tried: empty and not.
PlainStrings == {<<>>, <<"a">>}

\* The byte values and lengths of a body.
ByteValues == {0, 255}
MaxBodyLen == 3

\* A []byte: nil, or a slice (possibly of length 0).
Bodies == {[nil |-> TRUE, bytes |-> <<>>]}
          \cup {[nil |-> FALSE, bytes |-> b] :
                   b \in UNION {[1..n -> ByteValues] : n \in 0..MaxBodyLen}}

\* A map[string]string: nil, empty, or with one entry.
HeaderKeys == {<<"a">>}
HeaderMaps == {[nil |-> TRUE, kv |-> {}], [nil |-> FALSE, kv |-> {}]}
              \cup {[nil |-> FALSE, kv |-> {<<k, v>>}] : k \in HeaderKeys, v \in GoStrings}

\* The status codes tried.
StatusCodes == {0, 200}

\* IncomingRequest and IncomingResponse values: a field the type does not have
\* is at its zero value.
Requests ==
    {[kind |-> "request", Type |-> <<>>, ID |-> i, Method |-> m, Path |-> q,
      StatusCode |-> 0, Headers |-> h, Body |-> b] :
        i \in GoStrings, m \in PlainStrings, q \in PlainStrings, h \in HeaderMaps, b \in Bodies}
Responses ==
    {[kind |-> "response", Type |-> y, ID |-> i, Method |-> <<>>, Path |-> <<>>,
      StatusCode |-> s, Headers |-> h, Body |-> b] :
        y \in PlainStrings, i \in GoStrings, s \in StatusCodes, h \in HeaderMaps, b \in Bodies}

\* JSON values: null, a string (its text, or its base64 digits), a number, an
\* object with string members.
JNull == [t |-> "null", s |-> <<>>, b |-> <<>>, n |-> 0, o |-> {}]
JString(s) == [t |-> "string", s |-> s, b |-> <<>>, n |-> 0, o |-> {}]
JBase64(b) == [t |-> "string", s |-> <<>>, b |-> b, n |-> 0, o |-> {}]
JNumber(n) == [t |-> "number", s |-> <<>>, b |-> <<>>, n |-> n, o |-> {}]
JObject(o) == [t |-> "object", s |-> <<>>, b |-> <<>>, n |-> 0, o |-> o]

\* json.Marshal of a string: "coerced to valid UTF-8, replacing invalid bytes
\* with the Unicode replacement rune".
ToValidUTF8(s) == [i \in DOMAIN s |-> IF s[i] = "xE9" THEN "uFFFD" ELSE s[i]]

\* base64.StdEncoding: digits are 0..63, Pad is "=".
Pad == 64

RECURSIVE Base64Encode(_)
Base64Encode(b) ==
    IF Len(b) = 0 THEN <<>>
    ELSE IF Len(b) = 1 THEN <<b[1] \div 4, (b[1] % 4) * 16, Pad, Pad>>
    ELSE IF Len(b) = 2
    THEN <<b[1] \div 4, (b[1] % 4) * 16 + b[2] \div 16, (b[2] % 16) * 4, Pad>>
    ELSE <<b[1] \div 4, (b[1] % 4) * 16 + b[2] \div 16,
           (b[2] % 16) * 4 + b[3] \div 64, b[3] % 64>>
         \o Base64Encode(SubSeq(b, 4, Len(b)))

RECURSIVE Base64Decode(_)
Base64Decode(d) ==
    IF Len(d) = 0 THEN <<>>
    ELSE IF d[3] = Pad THEN <<d[1] * 4 + d[2] \div 16>>
    ELSE IF d[4] = Pad
    THEN <<d[1] * 4 + d[2] \div 16, (d[2] % 16) * 16 + d[3] \div 4>>
    ELSE <<d[1] * 4 + d[2] \div 16, (d[2] % 16) * 16 + d[3] \div 4, (d[3] % 4) * 64 + d[4]>>
         \o Base64Decode(SubSeq(d, 5, Len(d)))

\* json.Marshal of a map[string]string and of a []byte: nil is null.
MarshalHeaders(h) ==
    IF h.nil THEN JNull
    ELSE JObject({<<ToValidUTF8(e[1]), ToValidUTF8(e[2])>> : e \in h.kv})

\* An encoder that leaves an empty body out like a missing one.
MarshalBodyOmitEmpty(b) ==
    IF b.nil \/ Len(b.bytes) = 0 THEN JNull ELSE JBase64(Base64Encode(b.bytes))

MarshalBody(b) == IF b.nil THEN JNull ELSE JBase64(Base64Encode(b.bytes))

\* The JSON keys of the two types, from their struct tags.
WireFields(kind) ==
    IF kind = "request" THEN {"id", "method", "path", "headers", "body"}
    ELSE {"type", "id", "statusCode", "headers", "body"}

\* json.Marshal(v)
Marshal(v) ==
    [k \in WireFields(v.kind) |->
        CASE k = "type" -> JString(ToValidUTF8(v.Type))
          [] k = "id" -> JString(ToValidUTF8(v.ID))
          [] k = "method" -> JString(ToValidUTF8(v.Method))
          [] k = "path" -> JString(ToValidUTF8(v.Path))
          [] k = "statusCode" -> JNumber(v.StatusCode)
          [] k = "headers" -> MarshalHeaders(v.Headers)
          [] k = "body" -> MarshalBody(v.Body)]

\* json.Unmarshal into a zero value: null and a missing key leave the field as
\* it is; an object makes a map, a string a slice of its decoded bytes.
Member(w, k) == IF k \in DOMAIN w THEN w[k] ELSE JNull
UnmarshalString(j) == IF j.t = "string" THEN j.s ELSE <<>>
UnmarshalNumber(j) == IF j.t = "number" THEN j.n ELSE 0
UnmarshalHeaders(j) ==
    IF j.t = "object" THEN [nil |-> FALSE, kv |-> j.o] ELSE [nil |-> TRUE, kv |-> {}]
UnmarshalBody(j) ==
    IF j.t = "string" THEN [nil |-> FALSE, bytes |-> Base64Decode(j.b)]
    ELSE [nil |-> TRUE, bytes |-> <<>>]

\* json.Unmarshal(data, &back), back of the type kind
Unmarshal(kind, w) ==
    [kind |-> kind,
     Type |-> IF "type" \in WireFields(kind) THEN UnmarshalString(Member(w, "type")) ELSE <<>>,
     ID |-> UnmarshalString(Member(w, "id")),
     Method |-> IF "method" \in WireFields(kind) THEN UnmarshalString(Member(w, "method")) ELSE <<>>,
     Path |-> IF "path" \in WireFields(kind) THEN UnmarshalString(Member(w, "path")) ELSE <<>>,
     StatusCode |-> IF "statusCode" \in WireFields(kind)
                    THEN UnmarshalNumber(Member(w, "statusCode")) ELSE 0,
     Headers |-> UnmarshalHeaders(Member(w, "headers")),
     Body |-> UnmarshalBody(Member(w, "body"))]

\* A value to encode, with no client running.
InitCodec ==
    /\ InitClient
    /\ \E v \in Requests \cup Responses : codec = [step |-> "value", val |-> v]

\* data, err := json.Marshal(req)
CodecMarshal ==
    /\ codec.step = "value"
    /\ codec' = [step |-> "wire", val |-> codec.val, wire |-> Marshal(codec.val)]
    /\ UNCHANGED <<cfg, ctxDone, pc, loopVars, userCloses, connVars, lockVars, tableVars,
                   taskVars, cur, rq, writes, cbVars>>

\* var back IncomingRequest; json.Unmarshal(data, &back)
CodecUnmarshal ==
    /\ codec.step = "wire"
    /\ codec' = [step |-> "back", val |-> codec.val, wire |-> codec.wire,
                 back |-> Unmarshal(codec.val.kind, codec.wire)]
    /\ UNCHANGED <<cfg, ctxDone, pc, loopVars, userCloses, connVars, lockVars, tableVars,
                   taskVars, cur, rq, writes, cbVars>>

NextCodec == CodecMarshal \/ CodecUnmarshal

SpecCodec == InitCodec /\ [][NextCodec]_vars

\* ------------------------------------------------------- specification
\* Steps of the world around the client that no relay goroutine is needed
\* for: the caller, the clock, the relay's control frames and closes.
World ==
    \/ CtxCancel
    \/ UserClose
    \/ ConnectWaitTimer
    \/ DialFail
    \/ DialOk
    \/ RecvTunnelOpened
    \/ RecvError
    \/ RecvSkipped
    \/ RecvBadJSON
    \/ ReadCleanClose
    \/ ReadFails

\* tcp_connection and tcp_data frames of the relay, and the local TCP service.
StreamTraffic(budget) ==
    \/ \E id \in UsedIDs \cup FreshIDs : RecvTCPConnection(id, budget)
    \/ \E id \in ConnIDs : RecvTCPData(id)
    \/ \E k \in Tasks : StreamDialFail(k)
    \/ \E k \in Tasks : StreamDialOk(k)
    \/ \E k \in Tasks : StreamRead(k)
    \/ \E k \in Tasks : StreamReadFails(k)

\* udp_data and request frames of the relay, and the local UDP and HTTP services.
RequestTraffic(budget) ==
    \/ RecvUDPData(budget)
    \/ RecvRequest(budget)
    \/ \E k \in Tasks : UDPLocalIO(k)
    \/ \E k \in Tasks : ProxyRoundTrip(k)

\* Steps of Connect's goroutine that wait for nothing outside the client.
ConnectSteps(maxFails) ==
    \/ ConnectTop(maxFails)
    \/ Install
    \/ HandshakeBegin
    \/ HandshakeEnd
    \/ ConnectResult
    \/ ConnectWaitCtx
    \/ CloseEnter(Main)
    \/ CloseTable(Main)
    \/ CloseConn(Main)

UserSteps ==
    \/ CloseEnter(User)
    \/ CloseTable(User)
    \/ CloseConn(User)

HeartbeatSteps ==
    \/ \E s \in Sessions : HeartbeatCtxDone(s)
    \/ \E s \in Sessions : HeartbeatTick(s)
    \/ \E s \in Sessions : HeartbeatWritten(s)

StreamSteps ==
    \/ TCPDataWrite
    \/ \E k \in Tasks : StreamRegister(k)
    \/ \E k \in Tasks : StreamSend(k)
    \/ \E k \in Tasks : StreamSent(k)
    \/ \E k \in Tasks : StreamCloseSocket(k)
    \/ \E k \in Tasks : StreamDelete(k)

RequestSteps ==
    \/ HandlerRuns
    \/ HandlerSend
    \/ HandlerSent
    \/ \E k \in Tasks : UDPSend(k)
    \/ \E k \in Tasks : UDPSent(k)
    \/ \E k \in Tasks : ProxySend(k)
    \/ \E k \in Tasks : ProxySent(k)

Next ==
    \/ World
    \/ StreamTraffic(MaxStarted)
    \/ RequestTraffic(MaxStarted)
    \/ ConnectSteps(MaxFails)
    \/ UserSteps
    \/ HeartbeatSteps
    \/ StreamSteps
    \/ RequestSteps

Spec == Init /\ [][Next]_vars

\* The client when the relay sends control frames only.
NextLoop ==
    \/ World
    \/ ConnectSteps(MaxRetries)
    \/ UserSteps
    \/ HeartbeatSteps

SpecLoop == Init /\ [][NextLoop]_vars

\* The client when the relay's traffic is TCP streams only.
NextStreams ==
    \/ World
    \/ StreamTraffic(MaxStarted)
    \/ ConnectSteps(MaxFails)
    \/ UserSteps
    \/ HeartbeatSteps
    \/ StreamSteps

SpecStreams == Init /\ [][NextStreams]_vars

\* The relay, the network and the clock, with nobody cancelling the context
\* or calling Close() from outside.
Peer ==
    \/ DialFail
    \/ DialOk
    \/ ConnectWaitTimer
    \/ RecvTunnelOpened
    \/ RecvError
    \/ RecvSkipped
    \/ RecvBadJSON
    \/ ReadCleanClose
    \/ ReadFails

\* A relay that sends no control frame and is reached by every dial, where a
\* session ends by a read error.
Calm ==
    \/ DialOk
    \/ ConnectWaitTimer
    \/ RecvSkipped
    \/ ReadFails

\* Steps of Connect's goroutine under a context that is never cancelled.
AttemptSteps(maxFails) ==
    \/ ConnectTop(maxFails)
    \/ Install
    \/ HandshakeBegin
    \/ HandshakeEnd
    \/ ConnectResult
    \/ CloseEnter(Main)
    \/ CloseTable(Main)
    \/ CloseConn(Main)

\* tcp_connection and tcp_data frames of the relay towards a local service that
\* accepts or refuses the dial, sends nothing and may hang up.
InboundTraffic(budget) ==
    \/ \E id \in UsedIDs \cup FreshIDs : RecvTCPConnection(id, budget)
    \/ \E id \in ConnIDs : RecvTCPData(id)
    \/ \E k \in Tasks : StreamDialFail(k)
    \/ \E k \in Tasks : StreamDialOk(k)
    \/ \E k \in Tasks : StreamReadFails(k)

InboundSteps ==
    \/ TCPDataWrite
    \/ \E k \in Tasks : StreamRegister(k)
    \/ \E k \in Tasks : StreamCloseSocket(k)
    \/ \E k \in Tasks : StreamDelete(k)

\* The Stream Table in the inbound direction.
NextTable ==
    \/ Calm
    \/ InboundTraffic(MaxStarted)
    \/ AttemptSteps(MaxFails)
    \/ InboundSteps

SpecTable == Init /\ [][NextTable]_vars

\* The Stream Table under several streams at once.
NextPairs ==
    \/ Calm
    \/ StreamTraffic(MaxTasks)
    \/ AttemptSteps(MaxFails)
    \/ StreamSteps

SpecPairs == Init /\ [][NextPairs]_vars

\* Requests and datagrams: the handler, the proxy goroutine, handleUDPData.
NextRequests ==
    \/ Peer
    \/ CtxCancel
    \/ RequestTraffic(MaxStarted)
    \/ ConnectSteps(MaxFails)
    \/ RequestSteps

SpecRequests == Init /\ [][NextRequests]_vars

\* The TCP relay in both directions.
NextRelay ==
    \/ Calm
    \/ StreamTraffic(MaxStarted)
    \/ AttemptSteps(MaxFails)
    \/ StreamSteps

SpecRelay == Init /\ [][NextRelay]_vars

\* A relay that is reached by the dial and a backoff timer that does not fire:
\* one session, which ends by a read error.
Still ==
    \/ DialOk
    \/ RecvSkipped
    \/ ReadFails

\* The users of the two mutexes together, in one session: Close() from
\* Connect's goroutine and from outside, the install, readLoop, the heartbeat,
\* a stream and a datagram goroutine.
NextLocks ==
    \/ Still
    \/ UserClose
    \/ UserSteps
    \/ AttemptSteps(MaxFails)
    \/ \E s \in Sessions : HeartbeatTick(s)
    \/ \E s \in Sessions : HeartbeatWritten(s)
    \/ \E id \in UsedIDs \cup FreshIDs : RecvTCPConnection(id, MaxStarted)
    \/ \E id \in ConnIDs : RecvTCPData(id)
    \/ \E k \in Tasks : StreamDialOk(k)
    \/ \E k \in Tasks : StreamRead(k)
    \/ \E k \in Tasks : StreamReadFails(k)
    \/ StreamSteps
    \/ RecvUDPData(MaxStarted)
    \/ \E k \in Tasks : UDPLocalIO(k)
    \/ \E k \in Tasks : UDPSend(k)
    \/ \E k \in Tasks : UDPSent(k)

SpecLocks == Init /\ [][NextLocks]_vars

\* Go schedules every runnable goroutine and a write on the transport returns
\* (weak fairness for the steps that wait for no lock); sync.Mutex hands the
\* lock to a goroutine that has waited (strong fairness for the steps that take
\* c.mu or c.tcpConnsMu).
FairLocks ==
    /\ SpecLocks
    /\ SF_vars(Install) /\ SF_vars(CloseEnter(Main)) /\ SF_vars(CloseEnter(User))
    /\ WF_vars(CloseTable(Main) \/ CloseConn(Main))
    /\ WF_vars(CloseTable(User) \/ CloseConn(User))
    /\ \A s \in Sessions : WF_vars(HeartbeatWritten(s))
    /\ \A k \in Tasks : SF_vars(StreamRegister(k) \/ StreamSend(k) \/ StreamDelete(k))
    /\ \A k \in Tasks : WF_vars(StreamSent(k) \/ StreamCloseSocket(k))
    /\ \A k \in Tasks : SF_vars(UDPSend(k))
    /\ \A k \in Tasks : WF_vars(UDPSent(k))

\* The UDP relay alone: udp_data frames, the local UDP service, handleUDPData.
NextDatagrams ==
    \/ Calm
    \/ RecvUDPData(MaxStarted)
    \/ AttemptSteps(MaxFails)
    \/ \E k \in Tasks : UDPLocalIO(k)
    \/ \E k \in Tasks : UDPSend(k)
    \/ \E k \in Tasks : UDPSent(k)

SpecDatagrams == Init /\ [][NextDatagrams]_vars

\* Go schedules every runnable goroutine, sync.Mutex hands the lock to every
\* waiter, and a select with a ready case does not block: each goroutine of the
\* client goes on taking its steps.  Nothing obliges the relay, the caller or
\* the clock to act.
FairLoop ==
    /\ SpecLoop
    /\ SF_vars(ConnectSteps(MaxRetries))
    /\ SF_vars(UserSteps)
    /\ \A s \in Sessions : SF_vars(HeartbeatCtxDone(s))
    /\ \A s \in Sessions : SF_vars(HeartbeatTick(s) \/ HeartbeatWritten(s))

\* The same, with fairness for Connect's goroutine alone.
FairConnect == SpecLoop /\ WF_vars(ConnectSteps(MaxRetries))

\* ----------------------------------------------------------------- claims

\* A call of Close() has set c.closed and has not returned yet.
CloseRunning == \E t \in Callers : pc[t] \in {"close2", "close3"}

\* The stream goroutines whose local socket has been put in the Stream Table.
Registered == {k \in Tasks : st[k].pc \in {"rd", "send", "wr", "cl", "del", "done"}}

\* C1: no frame is handed to the transport while c.closed is set: every write
\* starts with c.closed = false.
C1_NoFrameAfterClose == \A w \in writes : ~w.closed

\* C2: whenever c.closed is set and no Close() is still running, the Stream
\* Table is empty.
C2_ClosedTableEmpty == (closed /\ ~CloseRunning) => TableSockets = {}

\* C3: a registered local socket is never closed twice, and it has been closed
\* exactly once when its goroutine has ended.
C3_SocketClosedOnce ==
    \A k \in Registered :
        /\ sockClosed[k] <= 1
        /\ st[k].pc = "done" => sockClosed[k] = 1

\* C4: in the wait after the k-th consecutive failure the backoff is
\* min(1s * 2^(k-1), 30s), and the backoff always lies between 1s and 30s.
C4_BackoffSequence ==
    /\ InitialBackoff <= backoff /\ backoff <= MaxBackoff
    /\ pc[Main] = "wait" =>
         /\ fails >= 1
         /\ backoff = (IF InitialBackoff * 2^(fails - 1) < MaxBackoff
                       THEN InitialBackoff * 2^(fails - 1) ELSE MaxBackoff)

\* The seventh consecutive failure: the cap has been applied twice.
C4_Witness == pc[Main] = "wait" /\ fails = 7 /\ backoff = MaxBackoff

\* C5: when an attempt has returned, the backoff becomes 1s if it returned nil
\* and is left as it is if it returned an error; no other step brings the
\* backoff back to 1s.
C5_ResetOnCleanOnly ==
    [][ /\ (pc[Main] = "ret1" /\ pc'[Main] # "ret1") =>
            backoff' = (IF err = "nil" THEN InitialBackoff ELSE backoff)
        /\ (backoff # InitialBackoff /\ backoff' = InitialBackoff) =>
            (pc[Main] = "ret1" /\ err = "nil") ]_vars

\* An attempt that had connected failed while the backoff was above 1s, and
\* the backoff is still above 1s in the wait that follows.
C5_Witness == pc[Main] = "wait" /\ err \in {"handshake", "read"} /\ backoff > InitialBackoff

\* C6: Connect has returned only if the context is cancelled, and then it
\* returned the context's error.
C6_ReturnsOnlyOnCancel ==
    /\ pc[Main] = "returned" => (ctxDone /\ ret = "ctxErr")
    /\ ret # "none" => pc[Main] = "returned"

\* After a failed attempt, a recovered panic and a Close() from outside,
\* Connect is dialling again.
C6_Witness ==
    /\ pc[Main] = "dial"
    /\ conn >= 1
    /\ fails >= 1
    /\ "panic" \in seen
    /\ userCloses = 1 /\ pc[User] = "idle"

\* C7: once the context is cancelled while readLoop is blocked in ReadJSON,
\* Connect eventually returns, whatever the relay does.
C7_CancelEndsSession == (ctxDone /\ pc[Main] = "read") ~> (pc[Main] = "returned")

\* C8: with the context cancelled no attempt is started (from the top of the
\* loop or from the wait), and Connect returns from the wait without the timer.
C8_CancelStopsRetrying ==
    /\ [][ (ctxDone /\ pc[Main] # "dial") => pc'[Main] # "dial" ]_vars
    /\ ((ctxDone /\ pc[Main] = "wait") ~> (pc[Main] = "returned"))

\* Connect returned from the backoff wait: the wait's error is still set.
C8_Witness == pc[Main] = "returned" /\ err # "nil" /\ fails >= 1

\* C9: a call of Close() that finds c.closed set changes nothing and returns;
\* no transport is closed twice.
C9_CloseIdempotent ==
    /\ [][ \A t \in Callers :
             (pc[t] = "close1" /\ closed /\ pc'[t] # "close1") =>
                 /\ pc'[t] = AfterClose(t)
                 /\ UNCHANGED <<cfg, ctxDone, loopVars, userCloses, connVars, lockVars,
                                tableVars, taskVars, cur, rq, writes, errCalls>> ]_vars
    /\ [](\A s \in Sessions : tClosed[s] <= 1)

\* A second call of Close() in a session has returned.
C9_Witness == "noop" \in seen /\ conn >= 1 /\ tClosed[conn] = 1

\* C10: at most one write is in progress on the transport at any moment.
C10_SingleWriter == Cardinality(writes) <= 1

\* Goroutines started for session s that have not ended.
SessionTasks(s) ==
    {HB(s) : x \in {y \in {s} : hb[y] \in {"tick", "wr"}}}
    \cup {ST(k) : k \in {j \in Tasks : st[j].sess = s /\ st[j].pc \notin {"none", "failed", "done"}}}
    \cup {UD(k) : k \in {j \in Tasks : ud[j].sess = s /\ ud[j].pc \notin {"none", "done"}}}
    \cup {HT(k) : k \in {j \in Tasks : ht[j].sess = s /\ ht[j].pc \notin {"none", "done"}}}

\* Connect has begun a connection attempt and has not installed its transport
\* yet: the teardown of every session so far is complete.
AttemptBegun == pc[Main] \in {"dial", "install"}

\* C11: when a connection attempt begins, no goroutine started for an earlier
\* session is still running.
C11_TasksEndWithSession ==
    AttemptBegun => \A s \in 1..conn : SessionTasks(s) = {}

\* C12: a ping is written only to the transport of the session whose heartbeat
\* sends it.
C12_PingOnOwnTransport ==
    \A w \in writes : w.kind = "ping" => w.conn = w.from

\* handleTCPData has looked the frame's id up and found no entry.
Missed == pc[Main] = "td" /\ cur.sock = 0

\* The local socket of stream goroutine k is open and in use: dialled, not yet
\* closed by anyone.
SocketOpen(k) == st[k].pc \in {"reg", "rd", "send", "wr", "cl"} /\ sockClosed[k] = 0

\* C13: in an open session, a tcp_data frame for X that is read after the
\* tcp_connection frame for X, whose local dial has succeeded, finds the
\* socket opened for X.
C13_DataReachesSocket ==
    (/\ pc[Main] = "td"
     /\ ~closed /\ tClosed[conn] = 0
     /\ \E k \in Tasks : st[k].id = cur.id /\ st[k].sess = conn /\ SocketOpen(k))
    => cur.sock # 0

\* C14: the rest of handleTCPData after a lookup that found no entry changes
\* nothing (no socket is written to or closed, the table, the callbacks and
\* the session are as before) and readLoop is back at its read.
C14_UnknownIdNoOp ==
    [][ (Missed /\ pc'[Main] # "td") =>
            /\ pc'[Main] = "read"
            /\ cur' = NoFrame
            /\ UNCHANGED <<rq, cfg, ctxDone, loopVars, userCloses, connVars, lockVars,
                           tableVars, taskVars, writes, cbVars>> ]_vars

\* A frame for the id of a stream that has come and gone found no entry.
C14_Witness ==
    /\ Missed
    /\ \E k \in Tasks : st[k].id = cur.id /\ st[k].pc = "done"

\* C15: no two open local sockets are registered for one connection id.
C15_OneSocketPerId ==
    \A j, k \in Tasks :
        ~(/\ j # k
          /\ st[j].id = st[k].id
          /\ st[j].pc \in {"rd", "send", "wr", "cl"} /\ sockClosed[j] = 0
          /\ st[k].pc \in {"rd", "send", "wr", "cl"} /\ sockClosed[k] = 0)

\* C16: a failed local dial calls OnError once if it is registered, and touches
\* nothing else: no table entry, no socket, no change to Connect's goroutine
\* or the session; the goroutine has ended, and no entry ever names it.
C16_DialFailureIsLocal ==
    /\ [][ \A k \in Tasks :
             (st[k].pc = "dial" /\ st'[k].pc = "failed") =>
                 /\ errCalls' = (IF cfg.OnError THEN ~errCalls ELSE errCalls)
                 /\ UNCHANGED <<cfg, ctxDone, pc, loopVars, userCloses, connVars,
                                lockVars, tableVars, hb, ud, ht, cur, rq, writes>> ]_vars
    /\ [][ \A k \in Tasks : st[k].pc = "failed" => st'[k] = st[k] ]_vars
    /\ [](\A k \in Tasks : st[k].pc = "failed" => k \notin TableSockets)

\* The dial of a stream failed, OnError was called, and the session it came in
\* is still reading frames.
C16_Witness ==
    /\ \E k \in Tasks : st[k].pc = "failed" /\ st[k].sess = conn
    /\ errCalls
    /\ conn = 1 /\ pc[Main] = "read" /\ ~closed /\ tClosed[conn] = 0

\* readLoop has returned and connectOnce is on its way out through Close().
LoopEnded == pc[Main] \in {"close1", "close2", "close3", "ret1"} /\ readErr # "none"

\* C17: a message that fails to decode does not end readLoop.
C17_UndecodableSkipped == readErr = "decode" => ~LoopEnded

\* C18: readLoop returns nil exactly when the read failed with the
\* normal-closure close error; after an attempt that returned an error Connect
\* calls OnError once if it is registered, keeps its backoff and goes to the
\* wait, which it leaves only for the top of the loop or to return.
C18_LoopEndAndRetry ==
    /\ [](LoopEnded => (err = "nil" <=> readErr = "closeNormal"))
    /\ [][ (pc[Main] = "ret1" /\ err # "nil" /\ pc'[Main] # "ret1") =>
               /\ pc'[Main] = "wait"
               /\ backoff' = backoff
               /\ errCalls' = (IF cfg.OnError THEN ~errCalls ELSE errCalls) ]_vars
    /\ [][ (pc[Main] = "wait" /\ pc'[Main] # "wait") =>
               pc'[Main] \in {"top", "returned"} ]_vars
    /\ [][ pc'[Main] = "dial" => pc[Main] \in {"top", "dial"} ]_vars

\* After the first session ended with a read error, Connect is in the wait and
\* OnError has been called.
C18_Witness ==
    /\ pc[Main] = "wait" /\ err = "read" /\ fails = 1 /\ conn = 1
    /\ cfg.OnError /\ errCalls

\* C19: the step in which a user callback panics leaves Connect's goroutine
\* where a callback that returns would leave it (readLoop at its read, Connect
\* in its wait), and leaves the transport, the closed flag, the Stream Table
\* and Connect's result untouched.
C19_PanicRecovered ==
    [][ ("panic" \notin seen /\ "panic" \in seen') =>
            /\ pc'[Main] \in {pc[Main]} \cup
                  (IF pc[Main] \in {"read", "handler", "sr1", "sr2"} THEN {"read"}
                   ELSE IF pc[Main] = "ret1" THEN {"wait"}
                   ELSE {})
            /\ UNCHANGED <<connVars, tableVars, ret, ctxDone>> ]_vars

\* A callback has panicked and the first session goes on reading frames.
C19_Witness ==
    /\ "panic" \in seen
    /\ pc[Main] = "read" /\ rq = NoRq
    /\ conn = 1 /\ fails = 0 /\ ~closed /\ tClosed[conn] = 0

\* C20: the response to a request frame that carries its identifier under
\* requestId carries the same identifier under requestId.
C20_ResponseEchoesRequestId ==
    \A w \in writes :
        (w.kind = "response" /\ w.re.key = "requestId") => w.id = w.re

\* readLoop's goroutine is inside the handling of a request frame: the user's
\* handler is running, or SendResponse is waiting for c.mu or writing.
DispatchBusy == pc[Main] \in {"handler", "sr1", "sr2"}

\* C21: the dispatch loop never waits for the handling of a request or of a
\* datagram: the handler, the local round trips and the response write run on
\* goroutines of their own.
C21_DispatchNeverWaits == ~DispatchBusy

\* The udp_response writes in progress that goroutine k made.
UDPWrites(k) == {w \in writes : w.by = UD(k) /\ w.kind = "udp_response"}

\* C22: a udp_response is written only by the goroutine of a received udp_data
\* frame, after its local exchange ended with a reply, and carries that
\* frame's packet id; a goroutine whose exchange failed (dial, payload, write,
\* deadline) returns without a write; and a goroutine that has written does not
\* come back to write again.
C22_ResponseOnlyForReply ==
    /\ [](\A w \in writes :
            w.kind = "udp_response" =>
                \E k \in Tasks :
                    /\ w.by = UD(k)
                    /\ ud[k].pc = "wr"
                    /\ ud[k].out = "reply"
                    /\ ud[k].id \in PacketIDs
                    /\ w.id = [key |-> "packetId", val |-> ud[k].id])
    /\ [][ \A k \in Tasks :
             /\ (UDPWrites(k) = {} /\ UDPWrites(k)' # {}) => ud[k].pc = "send"
             /\ (ud[k].pc = "io" /\ ud'[k].pc # "io") =>
                    (ud'[k].pc = "send" \/ (ud'[k].pc = "done" /\ UNCHANGED writes))
             /\ ud[k].pc = "wr" => ud'[k].pc \in {"wr", "done"}
             /\ ud[k].pc = "done" => ud'[k].pc = "done" ]_vars

\* In one session a datagram was answered and its udp_response is being
\* written.
C22_Witness ==
    \E k \in Tasks :
        /\ ud[k].pc = "wr" /\ ud[k].out = "reply"
        /\ \E w \in UDPWrites(k) : w.conn = ud[k].sess /\ w.id.val = ud[k].id

\* The strings of value v (its identifier, method, path, type, and the names
\* and values of its headers) are valid UTF-8.
ValidStrings(v) ==
    /\ \A s \in {v.Type, v.ID, v.Method, v.Path} : ToValidUTF8(s) = s
    /\ \A e \in v.Headers.kv : ToValidUTF8(e[1]) = e[1] /\ ToValidUTF8(e[2]) = e[2]

\* C23 as stated: a request or response that has been encoded and decoded
\* again has every field equal to the original's.
C23_WireRoundTrip == codec.step = "back" => codec.back = codec.val

\* C23, amended: a request or response whose strings are valid UTF-8 comes back
\* from the encoding and the decoding with every field equal to the
\* original's: a nil map or body comes back nil, an empty one empty.
C23_ValidRoundTrip ==
    (codec.step = "back" /\ ValidStrings(codec.val)) => codec.back = codec.val

\* A request with an empty header map and no body has made the round trip.
C23_Witness ==
    /\ codec.step = "back"
    /\ codec.val.kind = "request"
    /\ ValidStrings(codec.val)
    /\ codec.val.ID # <<>>
    /\ ~codec.val.Headers.nil /\ codec.val.Headers.kv = {}
    /\ codec.val.Body.nil
    /\ codec.wire["headers"].t = "object" /\ codec.wire["body"].t = "null"

\* connectOnce is returning from an attempt that had established a transport:
\* the deferred Close() has returned and Connect is about to go on.
AttemptOver == pc[Main] = "ret1" /\ err # "dial"

\* C24: when an attempt that established a transport is over, the teardown is
\* complete: c.closed is set, the transport is closed, the Stream Table is
\* empty and every local socket that was registered is closed.
C24_TeardownBeforeNextAttempt ==
    AttemptOver =>
        /\ closed
        /\ tClosed[conn] >= 1
        /\ TableSockets = {}
        /\ \A k \in Registered : sockClosed[k] >= 1

\* The read of stream goroutine k has failed: its deferred cleanup is running
\* or has run.
ReadOver(k) == st[k].pc \in {"cl", "del", "done"}

\* handleTCPData looks a frame up in this step.
Lookup == pc[Main] = "read" /\ pc'[Main] = "td"

\* C25: once the read of a stream's local socket has failed, its goroutine
\* writes no frame any more, closes the socket, then deletes the entry, and
\* that is its end; after that no tcp_data frame finds the socket, and a
\* frame for the stream's id finds no entry unless another tcp_connection
\* frame used the same id.
C25_ReadFailureEndsStream ==
    /\ [](\A k \in Tasks :
            /\ ReadOver(k) => \A w \in writes : w.by # ST(k)
            /\ st[k].pc \in {"del", "done"} => sockClosed[k] >= 1
            /\ st[k].pc = "done" => k \notin TableSockets)
    /\ [][ \A k \in Tasks :
             /\ st[k].pc = "cl" => st'[k].pc \in {"cl", "del"}
             /\ st[k].pc = "del" => st'[k].pc \in {"del", "done"}
             /\ st[k].pc = "done" => st'[k].pc = "done"
             /\ (st[k].pc = "done" /\ Lookup) => cur'.sock # k
             /\ (st[k].pc = "done" /\ Lookup /\ cur'.id = st[k].id
                 /\ \A j \in Tasks \ {k} : st[j].id # st[k].id)
                    => cur'.sock = 0 ]_vars

\* A frame for the id of a stream whose read had failed was looked up in the
\* same session and found nothing.
C25_Witness ==
    /\ Missed
    /\ ~closed /\ tClosed[conn] = 0
    /\ \E k \in Tasks :
         /\ st[k].pc = "done" /\ st[k].id = cur.id /\ st[k].sess = conn
         /\ sockClosed[k] = 1 /\ tcpConns[cur.id] = 0

\* The frames the relay goroutines send.
RelayFrames == {"tcp_data", "response", "udp_response"}

\* C26: a tcp_data, response or udp_response frame is written only to the
\* transport of the session in which the frame it comes from was received.
C26_NoWriteAcrossSessions ==
    \A w \in writes : w.kind \in RelayFrames => w.conn = w.from

\* The deferred cleanup of stream goroutine k deletes from the table in this
\* step.
Deletes(k) == st[k].pc = "del" /\ st'[k].pc = "done"

\* C27: the delete of a stream goroutine's cleanup leaves every entry that
\* holds another goroutine's socket where it is.
C27_DeleteOwnEntryOnly ==
    [][ \A k \in Tasks :
          Deletes(k) =>
              \A i \in ConnIDs : tcpConns[i] \notin {0, k} => tcpConns'[i] = tcpConns[i] ]_vars

\* The new transport is installed and connectOnce has not yet begun to write
\* the handshake to it.
BeforeHandshake == pc[Main] = "hs"

\* C28: no frame is written to a newly established transport before the
\* open_tunnel handshake.
C28_HandshakeFirst ==
    BeforeHandshake => \A w \in writes : w.conn # conn

\* The goroutines that are waiting for c.mu and for c.tcpConnsMu.
WantsMu ==
    {t \in Callers : pc[t] = "close1"}
    \cup {t \in {Main} : pc[t] = "install"}
    \cup {ST(k) : k \in {j \in Tasks : st[j].pc = "send"}}
    \cup {UD(k) : k \in {j \in Tasks : ud[j].pc = "send"}}
WantsTable ==
    {t \in Callers : pc[t] = "close2"}
    \cup {ST(k) : k \in {j \in Tasks : st[j].pc \in {"reg", "del"}}}

\* The holder of c.mu can take its next step, which is its Unlock or, in
\* Close(), brings it there.
MuHolderCanGoOn ==
    /\ \A t \in Callers : mu = t => (ENABLED CloseTable(t) \/ ENABLED CloseConn(t))
    /\ \A s \in Sessions : mu = HB(s) => ENABLED HeartbeatWritten(s)
    /\ \A k \in Tasks : mu = ST(k) => ENABLED StreamSent(k)
    /\ \A k \in Tasks : mu = UD(k) => ENABLED UDPSent(k)

\* A goroutine that waits for a mutex which is free can take it.
FreeMutexIsTaken ==
    /\ mu = Free =>
          /\ \A t \in Callers : pc[t] = "close1" => ENABLED CloseEnter(t)
          /\ pc[Main] = "install" => ENABLED Install
          /\ \A k \in Tasks : st[k].pc = "send" => ENABLED StreamSend(k)
          /\ \A k \in Tasks : ud[k].pc = "send" => ENABLED UDPSend(k)
    /\ tcpConnsMu = Free =>
          /\ \A t \in Callers : pc[t] = "close2" => ENABLED CloseTable(t)
          /\ \A k \in Tasks : st[k].pc = "reg" => ENABLED StreamRegister(k)
          /\ \A k \in Tasks : st[k].pc = "del" => ENABLED StreamDelete(k)

WaitersGetTheLock ==
    /\ \A t \in Callers : (pc[t] = "close1") ~> (pc[t] # "close1")
    /\ \A t \in Callers : (pc[t] = "close2") ~> (pc[t] = "close3")
    /\ (pc[Main] = "install") ~> (pc[Main] = "hs")
    /\ \A k \in Tasks : (st[k].pc = "reg") ~> (st[k].pc = "rd")
    /\ \A k \in Tasks : (st[k].pc = "send") ~> (st[k].pc # "send")
    /\ \A k \in Tasks : (st[k].pc = "del") ~> (st[k].pc = "done")
    /\ \A k \in Tasks : (ud[k].pc = "send") ~> (ud[k].pc # "send")

====
